---------------------------- MODULE Spec2Model ----------------------------
(***************************************************************************)
(* Watchlist change tracking of Archive Agent                              *)
(* (src/archive_agent/watchlist/WatchlistManager.py).                      *)
(*                                                                         *)
(* The state is one WatchlistManager instance: self.data with its three    *)
(* keys 'included', 'excluded' and 'tracked', the document the storage     *)
(* manager last wrote, and the filesystem the patterns are resolved on.    *)
(* Every method of the class that changes state is one action.  A second   *)
(* instance on the same profile (peer) acts in the specification SpecTwo.  *)
(*                                                                         *)
(* self.data['included'] and self.data['excluded'] are Python lists that   *)
(* the code only ever rebuilds with list(set(...) | {pattern}) or shrinks  *)
(* with list.remove() after a membership test, so they hold no duplicates  *)
(* and their order is never read: they are modelled as sets.               *)
(***************************************************************************)
EXTENDS Integers, FiniteSets, Sequences, TLC

VARIABLES
    included,   \* self.data['included']
    excluded,   \* self.data['excluded']
    tracked,    \* self.data['tracked']: path -> [size, mtime, diff]
    saved,      \* the persisted document (watchlist.json)
    fs,         \* the filesystem: existing path -> [size, mtime]
    lastOp,     \* the last call and how it ended
    prior,      \* the call before it, as far as the properties read it
    pre,        \* self.data and the document as the last call found them
    scans,      \* completed track() calls since patterns or files last changed
    peer        \* self.data of a second WatchlistManager on the same profile

vars == <<included, excluded, tracked, saved, fs, lastOp, prior, pre, scans, peer>>

----------------------------------------------------------------------------
(* Bounds of the model. *)

\* File sizes range over 0..MaxSize.
MaxSize == 1

\* Modification times range over 0..MaxMtime.
MaxMtime == 1

----------------------------------------------------------------------------
(* The universe: paths, patterns, raw command line arguments. *)

Files == {"/d/a.txt", "/d/b.txt"}

\* A path no pattern of the model matches (an argument of diff_mark_resolved).
Stranger == "/d/c.log"

Patterns == {"/d/*.txt", "/d/b.txt"}

\* What the user may type: the patterns, one spelling that normalizes to a
\* pattern, and one malformed spelling.
RawPatterns == Patterns \cup {"~/b.txt", "b.txt"}

DIFF_NONE == "None"
DIFF_ADDED == "added"
DIFF_REMOVED == "removed"
DIFF_CHANGED == "changed"
DIFF_OPTIONS == {DIFF_NONE, DIFF_ADDED, DIFF_REMOVED, DIFF_CHANGED}

DEFAULT_WATCHLIST == [included |-> {}, excluded |-> {}, tracked |-> <<>>]

Sizes == 0..MaxSize
Mtimes == 0..MaxMtime
FileStat == [size : Sizes, mtime : Mtimes]

\* The files whose content the model rewrites and whose stat it varies; the
\* other files only come and go, with the stat FreshStat.
Rewritten == {"/d/a.txt"}
FreshStat == [size |-> MaxSize, mtime |-> MaxMtime]

----------------------------------------------------------------------------
(* Collaborators whose code is not part of the sources at hand. *)

\* validate_pattern: the normalized pattern, or "" when it raises.
validate_pattern(raw) ==
    CASE raw \in Patterns -> raw
      [] raw = "~/b.txt" -> "/d/b.txt"
      [] OTHER -> ""

Matches(pattern, file) ==
    \/ pattern = file
    \/ pattern = "/d/*.txt" /\ file \in {"/d/a.txt", "/d/b.txt"}

\* resolve_pattern: the existing paths the pattern matches.
resolve_pattern(pattern, f) == {file \in DOMAIN f : Matches(pattern, file)}

\* StorageManager.save(): a full overwrite of the document with self.data.
Document(incl, excl, trk) == [included |-> incl, excluded |-> excl, tracked |-> trk]

----------------------------------------------------------------------------
(* Dictionary helpers. *)

\* d with key k bound to v (d[k] = v).
DictSet(d, k, v) == [x \in DOMAIN d \cup {k} |-> IF x = k THEN v ELSE d[x]]

\* d without key k (del d[k]).
DictDel(d, k) == [x \in DOMAIN d \ {k} |-> d[x]]

Data == Document(included, excluded, tracked)

PreData == Document(pre.included, pre.excluded, pre.tracked)

Call(op, arg, res) == [op |-> op, arg |-> arg, res |-> res]

\* What `prior` keeps of a call: a completed track(), a diff_mark_resolved()
\* that deleted a tombstone, or anything else.
PriorOf(call, before) ==
    IF call.op = "track" /\ call.res = "saved"
    THEN [op |-> "track", arg |-> ""]
    ELSE IF /\ call.op = "diff_mark_resolved"
            /\ call.res = "saved"
            /\ before.tracked[call.arg].diff = DIFF_REMOVED
         THEN [op |-> "evict", arg |-> call.arg]
         ELSE [op |-> "other", arg |-> ""]

\* How many track() calls have completed since 'included', 'excluded' or the
\* filesystem last changed, counted "none", "one", "two", "more": a completed
\* track() counts one up, a call that changes the patterns or a change of the
\* files starts over, any other call leaves the count.
ScansAfter(op, res) ==
    IF op = "track" /\ res = "saved"
    THEN CASE scans = "none" -> "one"
           [] scans = "one" -> "two"
           [] OTHER -> "more"
    ELSE IF included' = included /\ excluded' = excluded /\ fs' = fs
         THEN scans
         ELSE "none"

\* The bookkeeping every call shares: remember the data it started from.
History(op, arg, res) ==
    /\ lastOp' = Call(op, arg, res)
    /\ prior' = PriorOf(lastOp, pre)
    /\ scans' = ScansAfter(op, res)
    /\ pre' = [included |-> included, excluded |-> excluded,
               tracked |-> tracked, saved |-> saved, peer |-> peer]

\* A call of this instance: the memory of the other instance is not its.
Record(op, arg, res) ==
    /\ History(op, arg, res)
    /\ UNCHANGED peer

----------------------------------------------------------------------------
(* The filesystem changes under the program. *)

\* A file is created, or a file of Rewritten is rewritten in place.
FsWrite(file, st) ==
    /\ st \in FileStat
    /\ IF file \in DOMAIN fs
       THEN file \in Rewritten /\ fs[file] # st
       ELSE file \in Rewritten \/ st = FreshStat
    /\ fs' = DictSet(fs, file, st)
    /\ UNCHANGED <<included, excluded, tracked, saved>>
    /\ Record("fs", "", "")

FsDelete(file) ==
    /\ file \in DOMAIN fs
    /\ fs' = DictDel(fs, file)
    /\ UNCHANGED <<included, excluded, tracked, saved>>
    /\ Record("fs", "", "")

----------------------------------------------------------------------------
(* include / exclude / remove. *)

\* Mutant of include_excluded: the pattern is not taken out of 'excluded'.
include_excluded_kept(excl, pattern) == excl

\* line 70: self.data['excluded'].remove(pattern)
include_excluded(excl, pattern) == excl \ {pattern}

\* Mutant of include_included: the list is rebuilt from the persisted
\* document, not from the copy in memory.
include_included_reloaded(incl, pattern) == saved.included \cup {pattern}

\* lines 71 and 77: list(set(self.data['included']) | {pattern})
include_included(incl, pattern) == incl \cup {pattern}

\* lines 72 and 78: self.save()
include_save(incl, excl, trk) == Document(incl, excl, trk)

include(raw) ==
    LET pattern == validate_pattern(raw) IN
    /\ UNCHANGED <<tracked, fs>>
    /\ IF pattern = ""
       THEN /\ UNCHANGED <<included, excluded, saved>>
            /\ Record("include", raw, "error")
       ELSE IF pattern \in included
       THEN /\ UNCHANGED <<included, excluded, saved>>
            /\ Record("include", pattern, "noop")
       ELSE IF pattern \in excluded
       THEN /\ excluded' = include_excluded(excluded, pattern)
            /\ included' = include_included(included, pattern)
            /\ saved' = include_save(included', excluded', tracked')
            /\ Record("include", pattern, "saved")
       ELSE /\ included' = include_included(included, pattern)
            /\ UNCHANGED excluded
            /\ saved' = include_save(included', excluded', tracked')
            /\ Record("include", pattern, "saved")


\* Mutant of exclude_included: the pattern is not taken out of 'included'.
exclude_included_kept(incl, pattern) == incl

\* line 94: self.data['included'].remove(pattern)
exclude_included(incl, pattern) == incl \ {pattern}

\* lines 95 and 101: list(set(self.data['excluded']) | {pattern})
exclude_excluded(excl, pattern) == excl \cup {pattern}

\* lines 96 and 102: self.save()
exclude_save(incl, excl, trk) == Document(incl, excl, trk)

\* Mutant of exclude_tracked: exclude() drops at once the tracked entries of
\* the files the pattern matches.
exclude_tracked_purged(trk, pattern) ==
    [file \in {x \in DOMAIN trk : ~Matches(pattern, x)} |-> trk[file]]

\* lines 80-102: exclude() has no statement on self.data['tracked'].
exclude_tracked(trk, pattern) == trk

exclude(raw) ==
    LET pattern == validate_pattern(raw) IN
    /\ tracked' = exclude_tracked(tracked, pattern)
    /\ UNCHANGED fs
    /\ IF pattern = ""
       THEN /\ UNCHANGED <<included, excluded, saved>>
            /\ Record("exclude", raw, "error")
       ELSE IF pattern \in excluded
       THEN /\ UNCHANGED <<included, excluded, saved>>
            /\ Record("exclude", pattern, "noop")
       ELSE IF pattern \in included
       THEN /\ included' = exclude_included(included, pattern)
            /\ excluded' = exclude_excluded(excluded, pattern)
            /\ saved' = exclude_save(included', excluded', tracked')
            /\ Record("exclude", pattern, "saved")
       ELSE /\ excluded' = exclude_excluded(excluded, pattern)
            /\ UNCHANGED included
            /\ saved' = exclude_save(included', excluded', tracked')
            /\ Record("exclude", pattern, "saved")

\* Mutant of remove_pattern: the pattern is left in the list.
remove_pattern_kept(list, pattern) == list

\* lines 114 and 120: list.remove(pattern)
remove_pattern(list, pattern) == list \ {pattern}

\* Mutant of remove_save: remove() does not save.
remove_save_missing(incl, excl, trk) == saved

\* lines 115 and 121: self.save()
remove_save(incl, excl, trk) == Document(incl, excl, trk)

remove(raw) ==
    LET pattern == validate_pattern(raw) IN
    /\ UNCHANGED <<tracked, fs>>
    /\ IF pattern = ""
       THEN /\ UNCHANGED <<included, excluded, saved>>
            /\ Record("remove", raw, "error")
       ELSE IF pattern \in included
       THEN /\ included' = remove_pattern(included, pattern)
            /\ UNCHANGED excluded
            /\ saved' = remove_save(included', excluded', tracked')
            /\ Record("remove", pattern, "saved")
       ELSE IF pattern \in excluded
       THEN /\ excluded' = remove_pattern(excluded, pattern)
            /\ UNCHANGED included
            /\ saved' = remove_save(included', excluded', tracked')
            /\ Record("remove", pattern, "saved")
       ELSE /\ UNCHANGED <<included, excluded, saved>>
            /\ Record("remove", pattern, "noop")

\* validate(): no overlapping patterns, no diff outside DIFF_OPTIONS.
validate(doc) ==
    /\ doc.included \cap doc.excluded = {}
    /\ \A file \in DOMAIN doc.tracked : doc.tracked[file].diff \in DIFF_OPTIONS

----------------------------------------------------------------------------
(* track(): resolve all patterns and track changed files. *)

\* lines 152-155 and 158-161: the unique files the patterns resolve to.
resolved_files(patterns, f) == UNION {resolve_pattern(pattern, f) : pattern \in patterns}

\* Mutant of tracked_files_new: the excluded files are not taken out.
tracked_files_new_all_included(incl, excl, f) == resolved_files(incl, f)

\* line 165: the included files that are not excluded (sorted() only fixes
\* the order of the keys, which a dictionary comparison does not read).
tracked_files_new(incl, excl, f) ==
    {file \in resolved_files(incl, f) : file \notin resolved_files(excl, f)}

\* line 171
added_files(new, old) == {file \in new : file \notin old}

\* Mutant of removed_files: no tombstones, the vanished keys are dropped.
removed_files_dropped(new, old) == {}

\* line 172
removed_files(new, old) == {file \in old : file \notin new}

\* line 174
possibly_changed_files(new, old) ==
    {file \in new : file \notin added_files(new, old) \cup removed_files(new, old)}

\* lines 178-182: the entry of a file as stat reports it now.
stat_entry(f, file) ==
    [size |-> f[file].size, mtime |-> f[file].mtime, diff |-> DIFF_NONE]

\* Mutant of removed_entry: the modification time is not zeroed.
removed_entry_mtime_kept == [size |-> 0, mtime |-> MaxMtime, diff |-> DIFF_REMOVED]

\* lines 192-196: the tombstone of a file that is no longer resolved.
removed_entry == [size |-> 0, mtime |-> 0, diff |-> DIFF_REMOVED]

\* Mutant of entry_differs: the modification time is not compared.
entry_differs_no_mtime(new_entry, old_entry) ==
    \/ new_entry.size # old_entry.size
    \/ new_entry.diff # old_entry.diff

\* Mutant of entry_differs: only size and mtime are compared.
entry_differs_stat_only(new_entry, old_entry) ==
    \/ new_entry.size # old_entry.size
    \/ new_entry.mtime # old_entry.mtime

\* line 186: the whole entries are compared, 'diff' included.
entry_differs(new_entry, old_entry) == new_entry # old_entry

\* line 186
changed_files(new, old_dict, f) ==
    {file \in possibly_changed_files(new, DOMAIN old_dict) :
        entry_differs(stat_entry(f, file), old_dict[file])}

\* Mutant of new_diff: a changed file gets a diff that is no DIFF_OPTIONS value.
new_diff_misspelled(file, new, old_dict, f) ==
    IF file \in changed_files(new, old_dict, f) THEN "modified"
    ELSE IF file \in added_files(new, DOMAIN old_dict) THEN DIFF_ADDED
    ELSE DIFF_NONE

\* Mutant of new_diff: line 189 is missing.
new_diff_never_added(file, new, old_dict, f) ==
    IF file \in changed_files(new, old_dict, f) THEN DIFF_CHANGED
    ELSE DIFF_NONE

\* lines 188-189 and 198-199: the diff of a file of the new target set.
new_diff(file, new, old_dict, f) ==
    IF file \in changed_files(new, old_dict, f) THEN DIFF_CHANGED
    ELSE IF file \in added_files(new, DOMAIN old_dict) THEN DIFF_ADDED
    ELSE DIFF_NONE

\* lines 176-199: tracked_dict_new.
tracked_dict_new(old_dict, incl, excl, f) ==
    LET new == tracked_files_new(incl, excl, f)
        old == DOMAIN old_dict
    IN  [file \in new \cup removed_files(new, old) |->
            IF file \in removed_files(new, old)
            THEN removed_entry
            ELSE [stat_entry(f, file) EXCEPT !.diff = new_diff(file, new, old_dict, f)]]

\* lines 206-207: self.data['tracked'] = tracked_dict_new; self.save()
track_save(incl, excl, trk) == Document(incl, excl, trk)

track ==
    /\ tracked' = tracked_dict_new(tracked, included, excluded, fs)
    /\ UNCHANGED <<included, excluded, fs>>
    /\ saved' = track_save(included', excluded', tracked')
    /\ Record("track", "", "saved")

\* Mutant of tracked_after_raise: the entries are written into
\* self.data['tracked'] one by one, so those stat'ed before the failure stay.
tracked_after_raise_partial(old_dict, incl, excl, f, file) ==
    [x \in DOMAIN old_dict \cup tracked_files_new(incl, excl, f) |->
        IF x \in tracked_files_new(incl, excl, f)
        THEN stat_entry(f, x)
        ELSE old_dict[x]]

\* lines 176-184 and 206: the comprehension builds a local dictionary and
\* line 206 is not reached, so self.data['tracked'] is the old dictionary.
tracked_after_raise(old_dict, incl, excl, f, file) == old_dict

\* lines 179-180: a file resolved at line 154 is gone when os.path.getsize
\* runs, which raises before self.data is assigned.
track_stat_raises(file) ==
    /\ file \in tracked_files_new(included, excluded, fs)
    /\ fs' = DictDel(fs, file)
    /\ tracked' = tracked_after_raise(tracked, included, excluded, fs', file)
    /\ UNCHANGED <<included, excluded, saved>>
    /\ Record("track", file, "error")

----------------------------------------------------------------------------
(* diff_mark_resolved(file_path). *)

\* Mutant of resolved_dict: every resolved file is untracked.
resolved_dict_always_deletes(trk, file_path) == DictDel(trk, file_path)

\* Mutant of resolved_dict: a tombstone is reset like any other entry.
resolved_dict_never_deletes(trk, file_path) ==
    [trk EXCEPT ![file_path].diff = DIFF_NONE]

\* lines 271-274
resolved_dict(trk, file_path) ==
    IF trk[file_path].diff = DIFF_REMOVED
    THEN DictDel(trk, file_path)
    ELSE [trk EXCEPT ![file_path].diff = DIFF_NONE]

\* line 263
untracked_file(trk, file_path) == file_path \notin DOMAIN trk

\* Mutant of already_resolved: the check of line 267 is missing.
already_resolved_unchecked(trk, file_path) == FALSE

\* line 267
already_resolved(trk, file_path) == trk[file_path].diff = DIFF_NONE

\* line 276: self.save()
diff_mark_resolved_save(incl, excl, trk) == Document(incl, excl, trk)

diff_mark_resolved(file_path) ==
    /\ UNCHANGED <<included, excluded, fs>>
    /\ IF untracked_file(tracked, file_path)
       THEN /\ UNCHANGED <<tracked, saved>>
            /\ Record("diff_mark_resolved", file_path, "untracked")
       ELSE IF already_resolved(tracked, file_path)
       THEN /\ UNCHANGED <<tracked, saved>>
            /\ Record("diff_mark_resolved", file_path, "already")
       ELSE /\ tracked' = resolved_dict(tracked, file_path)
            /\ saved' = diff_mark_resolved_save(included', excluded', tracked')
            /\ Record("diff_mark_resolved", file_path, "saved")

----------------------------------------------------------------------------

Init ==
    /\ included = DEFAULT_WATCHLIST.included
    /\ excluded = DEFAULT_WATCHLIST.excluded
    /\ tracked = DEFAULT_WATCHLIST.tracked
    /\ saved = DEFAULT_WATCHLIST
    /\ fs \in {[f \in S |-> FreshStat] : S \in SUBSET Files}
    /\ lastOp = Call("init", "", "")
    /\ prior = [op |-> "other", arg |-> ""]
    /\ pre = [included |-> {}, excluded |-> {}, tracked |-> <<>>,
              saved |-> DEFAULT_WATCHLIST, peer |-> DEFAULT_WATCHLIST]
    /\ scans = "none"
    /\ peer = DEFAULT_WATCHLIST

Next ==
    \/ \E file \in Files, st \in FileStat : FsWrite(file, st)
    \/ \E file \in Files : FsDelete(file)
    \/ \E raw \in RawPatterns : include(raw)
    \/ \E raw \in RawPatterns : exclude(raw)
    \/ \E raw \in RawPatterns : remove(raw)
    \/ track
    \/ \E file \in Files : track_stat_raises(file)
    \/ \E file_path \in Files \cup {Stranger} : diff_mark_resolved(file_path)

Spec == Init /\ [][Next]_vars

----------------------------------------------------------------------------
(* A second WatchlistManager instance (another process) on the same profile: *)
(* the same methods, run on its own self.data, saving to the same document.  *)

\* __init__ (line 39): the storage manager loads the document, or the
\* default when there is none.
peer_load ==
    /\ peer' = saved
    /\ UNCHANGED <<included, excluded, tracked, saved, fs>>
    /\ History("peer_load", "", "")

\* include(pattern) of the second instance.
peer_include(raw) ==
    LET pattern == validate_pattern(raw) IN
    /\ UNCHANGED <<included, excluded, tracked, fs>>
    /\ IF pattern = ""
       THEN /\ UNCHANGED <<peer, saved>>
            /\ History("peer_include", raw, "error")
       ELSE IF pattern \in peer.included
       THEN /\ UNCHANGED <<peer, saved>>
            /\ History("peer_include", pattern, "noop")
       ELSE IF pattern \in peer.excluded
       THEN /\ peer' = Document(include_included(peer.included, pattern),
                                include_excluded(peer.excluded, pattern),
                                peer.tracked)
            /\ saved' = include_save(peer'.included, peer'.excluded, peer'.tracked)
            /\ History("peer_include", pattern, "saved")
       ELSE /\ peer' = Document(include_included(peer.included, pattern),
                                peer.excluded, peer.tracked)
            /\ saved' = include_save(peer'.included, peer'.excluded, peer'.tracked)
            /\ History("peer_include", pattern, "saved")

\* diff_mark_resolved(file_path) of the second instance.
peer_diff_mark_resolved(file_path) ==
    /\ UNCHANGED <<included, excluded, tracked, fs>>
    /\ IF untracked_file(peer.tracked, file_path)
       THEN /\ UNCHANGED <<peer, saved>>
            /\ History("peer_diff_mark_resolved", file_path, "untracked")
       ELSE IF already_resolved(peer.tracked, file_path)
       THEN /\ UNCHANGED <<peer, saved>>
            /\ History("peer_diff_mark_resolved", file_path, "already")
       ELSE /\ peer' = Document(peer.included, peer.excluded,
                                resolved_dict(peer.tracked, file_path))
            /\ saved' = diff_mark_resolved_save(peer'.included, peer'.excluded,
                                                peer'.tracked)
            /\ History("peer_diff_mark_resolved", file_path, "saved")

\* Two processes on one profile, the files on disk staying as they are.
NextTwo ==
    \/ \E raw \in RawPatterns : include(raw)
    \/ track
    \/ \E file_path \in Files : diff_mark_resolved(file_path)
    \/ peer_load
    \/ \E raw \in RawPatterns : peer_include(raw)
    \/ \E file_path \in Files : peer_diff_mark_resolved(file_path)

SpecTwo == Init /\ [][NextTwo]_vars

----------------------------------------------------------------------------
(* Properties. *)

TrackCompleted == lastOp = Call("track", "", "saved")

\* The target set of the scan the last call ran (track() leaves the patterns
\* and the filesystem as they were).
Target == tracked_files_new(included, excluded, fs)

Pending(entry) == entry.diff \in {DIFF_ADDED, DIFF_CHANGED, DIFF_REMOVED}

\* C1: whatever include, exclude and remove calls were made (with track and
\* diff_mark_resolved calls in between), no pattern is both included and
\* excluded, in memory and in the persisted document.
C1_NoOverlap ==
    /\ included \cap excluded = {}
    /\ saved.included \cap saved.excluded = {}

\* C1 witness: include() has just moved a pattern out of 'excluded', on a
\* watchlist that tracks files.
C1_Witness ==
    /\ lastOp.op = "include"
    /\ lastOp.res = "saved"
    /\ lastOp.arg \in pre.excluded
    /\ DOMAIN tracked # {}

\* C2: a second track() right after a completed track(), with nothing done
\* in between, leaves 'tracked' as the first one left it.
C2_TrackIdempotent ==
    (TrackCompleted /\ prior.op = "track") => tracked = pre.tracked

\* C3: a path whose diff is pending before a call is still tracked with a
\* pending diff after it, unless the call is diff_mark_resolved of that path.
C3_NoImplicitResolve ==
    \A file \in DOMAIN pre.tracked :
        Pending(pre.tracked[file]) =>
            \/ lastOp = Call("diff_mark_resolved", file, "saved")
            \/ file \in DOMAIN tracked /\ Pending(tracked[file])

\* C3 witness: track() has rescanned a file that was 'added' and has not
\* changed on disk since.
C3_Witness ==
    /\ TrackCompleted
    /\ \E file \in DOMAIN pre.tracked \cap DOMAIN fs :
        /\ pre.tracked[file].diff = DIFF_ADDED
        /\ pre.tracked[file].size = fs[file].size
        /\ pre.tracked[file].mtime = fs[file].mtime
        /\ file \in Target

\* C4: every 'removed' entry has size 0 and mtime 0; a completed track()
\* turns every previously tracked path outside the target set into the
\* tombstone, and leaves an unchanged resolved file at 'None'.
C4_Tombstone ==
    /\ \A file \in DOMAIN tracked :
        tracked[file].diff = DIFF_REMOVED =>
            tracked[file].size = 0 /\ tracked[file].mtime = 0
    /\ TrackCompleted =>
        \A file \in DOMAIN pre.tracked :
            /\ file \notin Target =>
                /\ file \in DOMAIN tracked
                /\ tracked[file] = [size |-> 0, mtime |-> 0, diff |-> DIFF_REMOVED]
            /\ ( /\ file \in Target
                 /\ pre.tracked[file] = stat_entry(fs, file) ) =>
                tracked[file].diff = DIFF_NONE

\* C4 witness: track() has found a resolved file with non-zero metadata gone
\* while another resolved file is unchanged.
C4_Witness ==
    /\ TrackCompleted
    /\ \E gone \in DOMAIN pre.tracked, kept \in DOMAIN pre.tracked :
        /\ pre.tracked[gone].diff = DIFF_NONE
        /\ pre.tracked[gone].size > 0
        /\ pre.tracked[gone].mtime > 0
        /\ gone \notin DOMAIN fs
        /\ tracked[gone].diff = DIFF_REMOVED
        /\ pre.tracked[kept].diff = DIFF_NONE
        /\ tracked[kept].diff = DIFF_NONE

\* C5: diff_mark_resolved of a tombstone deletes the key, and a track() right
\* after it that resolves the path again inserts it as 'added' with the
\* current size and mtime.
C5_TombstoneRoundTrip ==
    /\ \A file \in DOMAIN pre.tracked :
        ( /\ lastOp = Call("diff_mark_resolved", file, "saved")
          /\ pre.tracked[file].diff = DIFF_REMOVED ) =>
            file \notin DOMAIN tracked
    /\ (TrackCompleted /\ prior.op = "evict" /\ prior.arg \in Target) =>
        /\ prior.arg \in DOMAIN tracked
        /\ tracked[prior.arg] =
            [size |-> fs[prior.arg].size, mtime |-> fs[prior.arg].mtime,
             diff |-> DIFF_ADDED]

\* C5 witness: the tombstone of a file was resolved away and the next call,
\* a track(), has resolved the file again.
C5_Witness ==
    /\ TrackCompleted
    /\ prior.op = "evict"
    /\ prior.arg \in Target
    /\ prior.arg \notin DOMAIN pre.tracked

\* C6: diff_mark_resolved of a path that is not tracked, or whose diff is
\* 'None', ends in an error and leaves self.data and the document untouched.
C6_ResolveErrors ==
    lastOp.op = "diff_mark_resolved" =>
        /\ lastOp.arg \notin DOMAIN pre.tracked =>
            /\ lastOp.res = "untracked"
            /\ Data = PreData
            /\ saved = pre.saved
        /\ ( /\ lastOp.arg \in DOMAIN pre.tracked
             /\ pre.tracked[lastOp.arg].diff = DIFF_NONE ) =>
            /\ lastOp.res = "already"
            /\ Data = PreData
            /\ saved = pre.saved

\* C6 witness: diff_mark_resolved was called on an already resolved file.
C6_Witness ==
    /\ lastOp.op = "diff_mark_resolved"
    /\ lastOp.arg \in DOMAIN pre.tracked
    /\ pre.tracked[lastOp.arg].diff = DIFF_NONE

\* C6 witness, the other case: the path is not tracked.
C6_WitnessUntracked ==
    /\ lastOp.op = "diff_mark_resolved"
    /\ lastOp.arg \notin DOMAIN pre.tracked
    /\ DOMAIN pre.tracked # {}

\* C7: diff_mark_resolved of an 'added' or 'changed' entry sets its diff to
\* 'None', keeps its size and mtime, leaves every other entry and the
\* patterns alone, and saves.
C7_ResolveFrame ==
    ( /\ lastOp.op = "diff_mark_resolved"
      /\ lastOp.arg \in DOMAIN pre.tracked
      /\ pre.tracked[lastOp.arg].diff \in {DIFF_ADDED, DIFF_CHANGED} ) =>
        /\ lastOp.res = "saved"
        /\ DOMAIN tracked = DOMAIN pre.tracked
        /\ tracked[lastOp.arg] =
            [size |-> pre.tracked[lastOp.arg].size,
             mtime |-> pre.tracked[lastOp.arg].mtime,
             diff |-> DIFF_NONE]
        /\ \A file \in DOMAIN tracked \ {lastOp.arg} :
            tracked[file] = pre.tracked[file]
        /\ included = pre.included
        /\ excluded = pre.excluded
        /\ saved = Data

\* C7 witness: a 'changed' entry was resolved while another entry is pending.
C7_Witness ==
    /\ lastOp.op = "diff_mark_resolved"
    /\ lastOp.arg \in DOMAIN pre.tracked
    /\ pre.tracked[lastOp.arg].diff = DIFF_CHANGED
    /\ \E file \in DOMAIN tracked \ {lastOp.arg} : Pending(tracked[file])

\* C8: a completed track() marks 'changed', with the current size and
\* mtime, every path that was tracked, is in the new target set and whose
\* size or mtime on disk differs from the tracked one.
C8_ChangeDetected ==
    TrackCompleted =>
        \A file \in DOMAIN pre.tracked \cap Target :
            ( \/ fs[file].size # pre.tracked[file].size
              \/ fs[file].mtime # pre.tracked[file].mtime ) =>
                tracked[file] =
                    [size |-> fs[file].size, mtime |-> fs[file].mtime,
                     diff |-> DIFF_CHANGED]

\* C8 witness: track() has rescanned a resolved file of which only the
\* modification time changed.
C8_Witness ==
    /\ TrackCompleted
    /\ \E file \in DOMAIN pre.tracked \cap Target :
        /\ pre.tracked[file].diff = DIFF_NONE
        /\ fs[file].size = pre.tracked[file].size
        /\ fs[file].mtime # pre.tracked[file].mtime

\* C9: a completed track() marks 'added', with the current size and mtime,
\* every path of the new target set that was not tracked before.
C9_AddedDetected ==
    TrackCompleted =>
        \A file \in Target \ DOMAIN pre.tracked :
            /\ file \in DOMAIN tracked
            /\ tracked[file] =
                [size |-> fs[file].size, mtime |-> fs[file].mtime,
                 diff |-> DIFF_ADDED]

\* C9 witness: the first track() on an empty 'tracked' map resolved both
\* files.
C9_Witness ==
    /\ TrackCompleted
    /\ pre.tracked = <<>>
    /\ Target = Files
    /\ \A file \in Files : tracked[file].diff = DIFF_ADDED

\* C10: include(p) ends with p included and not excluded, exclude(p) with p
\* excluded and not included; every other pattern stays where it was, and a
\* call that finds p already in place changes nothing and does not save.
C10_IncludeExclude ==
    /\ (lastOp.op = "include" /\ lastOp.res # "error") =>
        /\ lastOp.arg \in included
        /\ lastOp.arg \notin excluded
        /\ included \ {lastOp.arg} = pre.included \ {lastOp.arg}
        /\ excluded \ {lastOp.arg} = pre.excluded \ {lastOp.arg}
        /\ lastOp.arg \in pre.included =>
            lastOp.res = "noop" /\ Data = PreData /\ saved = pre.saved
        /\ lastOp.arg \notin pre.included =>
            lastOp.res = "saved" /\ saved = Data
    /\ (lastOp.op = "exclude" /\ lastOp.res # "error") =>
        /\ lastOp.arg \in excluded
        /\ lastOp.arg \notin included
        /\ included \ {lastOp.arg} = pre.included \ {lastOp.arg}
        /\ excluded \ {lastOp.arg} = pre.excluded \ {lastOp.arg}
        /\ lastOp.arg \in pre.excluded =>
            lastOp.res = "noop" /\ Data = PreData /\ saved = pre.saved
        /\ lastOp.arg \notin pre.excluded =>
            lastOp.res = "saved" /\ saved = Data

\* C10 witness: exclude() has moved a pattern out of 'included' while the
\* other pattern stayed included.
C10_Witness ==
    /\ lastOp.op = "exclude"
    /\ lastOp.res = "saved"
    /\ lastOp.arg \in pre.included
    /\ included # {}

\* C11: remove(p) ends with p in neither list and every other pattern where
\* it was; when p was in neither list it changes nothing and does not save.
C11_Remove ==
    (lastOp.op = "remove" /\ lastOp.res # "error") =>
        /\ lastOp.arg \notin included
        /\ lastOp.arg \notin excluded
        /\ included \ {lastOp.arg} = pre.included \ {lastOp.arg}
        /\ excluded \ {lastOp.arg} = pre.excluded \ {lastOp.arg}
        /\ tracked = pre.tracked
        /\ lastOp.arg \in pre.included \cup pre.excluded =>
            lastOp.res = "saved" /\ saved = Data
        /\ lastOp.arg \notin pre.included \cup pre.excluded =>
            lastOp.res = "noop" /\ Data = PreData /\ saved = pre.saved

\* C11 witness: remove() has taken a pattern out of 'excluded' while another
\* pattern is included.
C11_Witness ==
    /\ lastOp.op = "remove"
    /\ lastOp.res = "saved"
    /\ lastOp.arg \in pre.excluded
    /\ included # {}

\* C11 witness, the other case: remove() of a pattern that has no rule, on a
\* watchlist that has rules.
C11_WitnessNoRule ==
    /\ lastOp.op = "remove"
    /\ lastOp.res = "noop"
    /\ included \cup excluded # {}

MatchedBy(patterns, file) == \E pattern \in patterns : Matches(pattern, file)

\* C12: right after a completed track(), a path that an excluded pattern
\* matches is either not tracked or a 'removed' tombstone, even when an
\* included pattern matches it too.
C12_ExclusionWins ==
    TrackCompleted =>
        \A file \in DOMAIN tracked :
            MatchedBy(excluded, file) => tracked[file].diff = DIFF_REMOVED

\* C12 witness: track() has scanned with an existing file matched by an
\* included and by an excluded pattern; the file was tracked before and is
\* now a tombstone, while another file is tracked.
C12_Witness ==
    /\ TrackCompleted
    /\ \E file \in DOMAIN fs, other \in DOMAIN tracked :
        /\ MatchedBy(included, file)
        /\ MatchedBy(excluded, file)
        /\ file \in DOMAIN pre.tracked
        /\ pre.tracked[file].diff # DIFF_REMOVED
        /\ tracked[file].diff = DIFF_REMOVED
        /\ tracked[other].diff # DIFF_REMOVED

\* C12 witness, the other case: the doubly matched file was never tracked
\* and stays out of 'tracked'.
C12_WitnessAbsent ==
    /\ TrackCompleted
    /\ \E file \in DOMAIN fs :
        /\ MatchedBy(included, file)
        /\ MatchedBy(excluded, file)
        /\ file \notin DOMAIN tracked
        /\ DOMAIN tracked # {}

\* C13: a stat failure for one path does not abort the scan: every track()
\* call completes and the saved document tracks every file of the target set
\* that could be read.
C13_StatFailureTolerated ==
    lastOp.op = "track" =>
        /\ lastOp.res = "saved"
        /\ \A file \in Target :
            /\ file \in DOMAIN saved.tracked
            /\ saved.tracked[file].diff # DIFF_REMOVED

\* C14: every entry of 'tracked', in memory and in the document, has a diff
\* that is one of 'None', 'added', 'removed', 'changed', so validate() holds.
C14_DiffOptions ==
    /\ \A file \in DOMAIN tracked : tracked[file].diff \in DIFF_OPTIONS
    /\ \A file \in DOMAIN saved.tracked : saved.tracked[file].diff \in DIFF_OPTIONS
    /\ validate(Data)

\* C14 witness: with an excluded pattern in place, a scan has left a
\* tombstone next to a resolved entry that it found 'changed'.
C14_Witness ==
    /\ TrackCompleted
    /\ excluded # {}
    /\ \E gone \in DOMAIN tracked, live \in DOMAIN tracked :
        /\ tracked[gone].diff = DIFF_REMOVED
        /\ tracked[live].diff = DIFF_CHANGED
        /\ pre.tracked[live].diff = DIFF_NONE

StatDiffers(file) ==
    \/ fs[file].size # pre.tracked[file].size
    \/ fs[file].mtime # pre.tracked[file].mtime

C16_RemovedTerminal ==
    \A file \in DOMAIN pre.tracked :
        pre.tracked[file].diff = DIFF_REMOVED =>
            \/ /\ lastOp = Call("diff_mark_resolved", file, "saved")
               /\ file \notin DOMAIN tracked
            \/ /\ file \in DOMAIN tracked
               /\ tracked[file] = [size |-> 0, mtime |-> 0, diff |-> DIFF_REMOVED]

\* C16 as amended: a 'removed' entry is deleted by diff_mark_resolved of its
\* path, becomes 'changed' with the size and mtime read from disk when a
\* completed track() finds the path in the target set again, and stays the
\* tombstone under every other call; it never becomes 'added' or 'None'.
C16_RemovedUntilResolvedOrBack ==
    \A file \in DOMAIN pre.tracked :
        pre.tracked[file].diff = DIFF_REMOVED =>
            IF lastOp = Call("diff_mark_resolved", file, "saved")
            THEN file \notin DOMAIN tracked
            ELSE /\ file \in DOMAIN tracked
                 /\ tracked[file] =
                        IF TrackCompleted /\ file \in Target
                        THEN [size |-> fs[file].size, mtime |-> fs[file].mtime,
                              diff |-> DIFF_CHANGED]
                        ELSE [size |-> 0, mtime |-> 0, diff |-> DIFF_REMOVED]

\* C16 witness: track() has found the file of a tombstone back on disk, with
\* size 0 and mtime 0 like the tombstone.
C16_Witness ==
    /\ TrackCompleted
    /\ \E file \in DOMAIN pre.tracked \cap Target :
        /\ pre.tracked[file].diff = DIFF_REMOVED
        /\ fs[file] = [size |-> 0, mtime |-> 0]
        /\ tracked[file].diff = DIFF_CHANGED

\* C16 witness, the other case: a scan has left a tombstone in place.
C16_WitnessKept ==
    /\ TrackCompleted
    /\ \E file \in DOMAIN pre.tracked \ Target :
        /\ pre.tracked[file].diff = DIFF_REMOVED
        /\ tracked[file].diff = DIFF_REMOVED

\* C17: after a completed track() the keys of 'tracked' are the target set
\* united with the keys before the scan, every key outside the target set
\* being a tombstone; under every call, a key leaves 'tracked' only by
\* diff_mark_resolved of a 'removed' entry.
C17_NoKeyDropped ==
    /\ TrackCompleted =>
        /\ DOMAIN tracked = Target \cup DOMAIN pre.tracked
        /\ \A file \in DOMAIN tracked \ Target :
            tracked[file].diff = DIFF_REMOVED
    /\ \A file \in DOMAIN pre.tracked \ DOMAIN tracked :
        /\ lastOp = Call("diff_mark_resolved", file, "saved")
        /\ pre.tracked[file].diff = DIFF_REMOVED

\* C17 witness: a scan has kept the key of a vanished file and taken a new
\* file in.
C17_Witness ==
    /\ TrackCompleted
    /\ DOMAIN pre.tracked \ Target # {}
    /\ Target \ DOMAIN pre.tracked # {}

\* C17 witness, the other case: a key has left 'tracked'.
C17_WitnessLeft ==
    /\ DOMAIN pre.tracked \ DOMAIN tracked # {}
    /\ DOMAIN tracked # {}

\* C18: a track() call either completes, with every entry of 'tracked'
\* rebuilt (the fresh size and mtime for the target set, a tombstone for
\* every other old key) and the document saved, or raises and leaves
\* self.data and the document exactly as they were.
C18_ScanAtomic ==
    lastOp.op = "track" =>
        \/ /\ lastOp.res = "saved"
           /\ DOMAIN tracked = Target \cup DOMAIN pre.tracked
           /\ \A file \in Target :
                /\ tracked[file].size = fs[file].size
                /\ tracked[file].mtime = fs[file].mtime
           /\ \A file \in DOMAIN tracked \ Target :
                tracked[file] = [size |-> 0, mtime |-> 0, diff |-> DIFF_REMOVED]
           /\ included = pre.included
           /\ excluded = pre.excluded
           /\ saved = Data
        \/ /\ lastOp.res = "error"
           /\ Data = PreData
           /\ saved = pre.saved

\* C18 witness: a stat call has raised for one path of the target set while
\* another path of it, readable, has a stale or no entry in 'tracked'.
C18_Witness ==
    /\ lastOp.op = "track"
    /\ lastOp.res = "error"
    /\ \E file \in Target :
        \/ file \notin DOMAIN tracked
        \/ tracked[file].size # fs[file].size
        \/ tracked[file].mtime # fs[file].mtime

\* C19: after every call of the single instance the persisted document
\* equals self.data: a branch that changes data saves before it returns, and
\* a branch that does not save has changed nothing.
C19_SavedEqualsData ==
    /\ saved = Data
    /\ lastOp.res = "saved" => pre.saved = PreData
    /\ lastOp.res # "saved" => Data = PreData

\* C19 witness: remove() has changed the patterns of a watchlist that tracks
\* files, and the document has changed with it.
C19_Witness ==
    /\ lastOp.op = "remove"
    /\ lastOp.res = "saved"
    /\ DOMAIN tracked # {}
    /\ saved # pre.saved

\* C20: with two instances on one profile, every saving call rebuilds the
\* whole document from the caller's own copy in memory as it was when the
\* call started, whatever the document held by then (so what the other
\* instance saved in between is lost).
C20_StaleOverwrite ==
    /\ (lastOp.op = "include" /\ lastOp.res = "saved") =>
        saved = Document(pre.included \cup {lastOp.arg},
                         pre.excluded \ {lastOp.arg}, pre.tracked)
    /\ (lastOp.op = "diff_mark_resolved" /\ lastOp.res = "saved") =>
        /\ saved.included = pre.included
        /\ saved.excluded = pre.excluded
        /\ \A file \in DOMAIN saved.tracked \ {lastOp.arg} :
            /\ file \in DOMAIN pre.tracked
            /\ saved.tracked[file] = pre.tracked[file]
    /\ (lastOp.op = "peer_include" /\ lastOp.res = "saved") =>
        /\ saved = Document(pre.peer.included \cup {lastOp.arg},
                            pre.peer.excluded \ {lastOp.arg}, pre.peer.tracked)
        /\ Data = PreData
    /\ (lastOp.op = "peer_diff_mark_resolved" /\ lastOp.res = "saved") =>
        /\ saved.included = pre.peer.included
        /\ saved.excluded = pre.peer.excluded
        /\ \A file \in DOMAIN saved.tracked \ {lastOp.arg} :
            /\ file \in DOMAIN pre.peer.tracked
            /\ saved.tracked[file] = pre.peer.tracked[file]
        /\ Data = PreData

\* C20 witness: a lost update. The document held a pattern that this instance
\* included and saved; the other instance, which loaded the document before
\* that, has included another pattern, and its save has dropped the first.
C20_Witness ==
    /\ lastOp.op = "peer_include"
    /\ lastOp.res = "saved"
    /\ \E pattern \in included :
        /\ pattern # lastOp.arg
        /\ pattern \in pre.saved.included
        /\ pattern \notin saved.included

\* C20 witness, a resolved diff: this instance resolved a file and saved
\* 'None'; the other instance's save has put the pending diff back.
C20_WitnessResolved ==
    /\ lastOp.op \in {"peer_include", "peer_diff_mark_resolved"}
    /\ lastOp.res = "saved"
    /\ \E file \in DOMAIN tracked \cap DOMAIN saved.tracked :
        /\ file # lastOp.arg
        /\ tracked[file].diff = DIFF_NONE
        /\ pre.saved.tracked[file].diff = DIFF_NONE
        /\ saved.tracked[file].diff # DIFF_NONE

\* C21: the two halves of the watchlist are separate. include, exclude and
\* remove, however they end, leave 'tracked' as they found it; track (completed
\* or aborted) and diff_mark_resolved leave 'included' and 'excluded' as they
\* found them.
C21_Separation ==
    /\ lastOp.op \in {"include", "exclude", "remove"} => tracked = pre.tracked
    /\ lastOp.op \in {"track", "diff_mark_resolved"} =>
        /\ included = pre.included
        /\ excluded = pre.excluded

\* C21 witness: exclude() has just saved a pattern that matches an existing
\* file with a pending entry; the file has left the target set, and its entry
\* is still there, as it was, until the next track().
C21_Witness ==
    /\ lastOp.op = "exclude"
    /\ lastOp.res = "saved"
    /\ \E file \in DOMAIN tracked \cap DOMAIN fs :
        /\ Matches(lastOp.arg, file)
        /\ file \notin Target
        /\ tracked[file].diff \in {DIFF_ADDED, DIFF_CHANGED}
        /\ tracked[file] = pre.tracked[file]

\* C21 witness, the other half: a track() that rewrote 'tracked' under both
\* kinds of patterns.
C21_WitnessTrack ==
    /\ TrackCompleted
    /\ tracked # pre.tracked
    /\ included # {}
    /\ excluded # {}
    /\ included = pre.included
    /\ excluded = pre.excluded

AllResolved(trk) == \A file \in DOMAIN trk : trk[file].diff = DIFF_NONE

\* C22: quiescence. A track() that completes after an earlier track(), with
\* the patterns and the filesystem unchanged in between and every entry
\* resolved by then, leaves 'tracked' as it found it, every entry at 'None'
\* (no tombstone, no new pending work).  And whatever is resolved or not,
\* the third and every later track() since the patterns and the filesystem
\* last changed leaves 'tracked' as it found it: 'tracked' has stopped
\* changing after two track() calls.
C22_Quiescence ==
    /\ (TrackCompleted /\ scans \in {"two", "more"} /\ AllResolved(pre.tracked)) =>
        /\ tracked = pre.tracked
        /\ AllResolved(tracked)
    /\ (TrackCompleted /\ scans = "more") => tracked = pre.tracked

\* C22 witness: after a track() the consumer resolved what was pending, last
\* of all a tombstone, and the next track() has found nothing to report on a
\* watchlist that tracks files.
C22_Witness ==
    /\ TrackCompleted
    /\ scans = "two"
    /\ prior.op = "evict"
    /\ AllResolved(pre.tracked)
    /\ tracked = pre.tracked
    /\ tracked # <<>>

\* C22 witness, consecutive calls: a track() right after another, the third
\* or a later one since the last change, has changed nothing, with pending
\* work and a tombstone left unresolved.
C22_WitnessConsecutive ==
    /\ TrackCompleted
    /\ prior.op = "track"
    /\ scans = "more"
    /\ tracked = pre.tracked
    /\ \E file \in DOMAIN tracked : tracked[file].diff = DIFF_CHANGED
    /\ \E file \in DOMAIN tracked : tracked[file].diff = DIFF_REMOVED

=============================================================================
